---- MODULE Spec2Model ----
(***************************************************************************)
(* A model of the two view components of the ride-hailing web client:      *)
(*   frontend/src/pages/DriverDashboard.tsx                                *)
(*   frontend/src/components/User/OffersModal.tsx                          *)
(* Text that the code inspects character by character (price buffers,      *)
(* ride status strings) is a sequence of one-character strings.            *)
(***************************************************************************)
EXTENDS Integers, Sequences, FiniteSets, Bags, TLC

VARIABLES
    \* ---- DriverDashboard ----
    rides,            \* data of useQuery(['driverRides']); <<>> while undefined
    ridesStatus,      \* status of that query: "loading", "success", "error"
    ridesInvalidated, \* the query has been invalidated and not refetched since
    offerPrices,      \* useState offerPrices: ride id -> text, a partial map
    selectedRideId,   \* useState selectedRideId: a ride id, or 0 for null
    pin,              \* useState pin
    isOpen,           \* useDisclosure isOpen of the PIN modal
    driverReqs,       \* bag of the mutation requests in flight
    toast,            \* the notification shown last by the dashboard
    \* ---- OffersModal ----
    offers,           \* data of useQuery(['offers', rideId]); <<>> while undefined
    offersStatus,     \* status of that query
    offersInvalidated,\* ['offers', rideId] invalidated and not refetched since
    userRidesInvalidated, \* ['userRides'] invalidated
    sortBy,           \* useState sortBy
    modalOpen,        \* the isOpen prop of OffersModal
    modalReqs,        \* bag of the mutation requests in flight
    modalToast,       \* the notification shown last by the modal
    serverOffers,     \* what GET /offer?ride_id= returns at present
    serverRides       \* what GET /ride/driver returns at present

driverVars == <<rides, ridesStatus, ridesInvalidated, offerPrices, selectedRideId,
                pin, isOpen, driverReqs, toast, serverRides>>
modalVars == <<offers, offersStatus, offersInvalidated, userRidesInvalidated, sortBy,
               modalOpen, modalReqs, modalToast, serverOffers>>
vars == <<driverVars, modalVars>>


\* Most mutation requests of one component that are in flight at once.
MaxInFlight == 2

(***************************************************************************)
(* Text                                                                    *)
(***************************************************************************)
\* String.prototype.toUpperCase, on the letters the statuses use.
Lower == <<"a","c","d","e","g","i","l","m","n","o","p","q","r","s","t","u">>
Upper == <<"A","C","D","E","G","I","L","M","N","O","P","Q","R","S","T","U">>

UpperChar(c) ==
    IF \E k \in DOMAIN Lower : Lower[k] = c
    THEN Upper[CHOOSE k \in DOMAIN Lower : Lower[k] = c]
    ELSE c

toUpperCase(s) == [k \in DOMAIN s |-> UpperChar(s[k])]

REQUESTED == <<"R","E","Q","U","E","S","T","E","D">>
ACCEPTED == <<"A","C","C","E","P","T","E","D">>
COMPLETED == <<"C","O","M","P","L","E","T","E","D">>

(***************************************************************************)
(* parseFloat: skip leading white space, read an optional sign, then the    *)
(* longest decimal literal (digits, optionally a point and digits); what    *)
(* follows the literal is ignored. No digit at all gives NaN. A number is   *)
(* the record [num, den] for num/den, den a power of ten.                   *)
(***************************************************************************)
Digits == <<"0","1","2","3","4","5","6","7","8","9">>
IsDigit(c) == \E k \in DOMAIN Digits : Digits[k] = c
DigitVal(c) == (CHOOSE k \in DOMAIN Digits : Digits[k] = c) - 1
IsSpace(c) == c = " "

RECURSIVE SkipSpace(_, _)
SkipSpace(s, i) ==
    IF i <= Len(s) /\ IsSpace(s[i]) THEN SkipSpace(s, i + 1) ELSE i

RECURSIVE DigitsEnd(_, _)
DigitsEnd(s, i) ==
    IF i <= Len(s) /\ IsDigit(s[i]) THEN DigitsEnd(s, i + 1) ELSE i

\* the value of the digits s[i..j-1], continuing from acc
RECURSIVE DigitsValue(_, _, _, _)
DigitsValue(s, i, j, acc) ==
    IF i >= j THEN acc ELSE DigitsValue(s, i + 1, j, 10 * acc + DigitVal(s[i]))

RECURSIVE Pow10(_)
Pow10(n) == IF n = 0 THEN 1 ELSE 10 * Pow10(n - 1)

\* NaN is 0/0
NaN == [num |-> 0, den |-> 0]

\* one number has one representation: 5.0 is 5
RECURSIVE Normalize(_, _)
Normalize(num, den) ==
    IF den > 1 /\ num % 10 = 0 THEN Normalize(num \div 10, den \div 10)
    ELSE [num |-> num, den |-> den]

parseFloat(s) ==
    LET i0   == SkipSpace(s, 1)
        neg  == i0 <= Len(s) /\ s[i0] = "-"
        i1   == IF i0 <= Len(s) /\ s[i0] \in {"-", "+"} THEN i0 + 1 ELSE i0
        i2   == DigitsEnd(s, i1)
        dot  == i2 <= Len(s) /\ s[i2] = "."
        i3   == IF dot THEN DigitsEnd(s, i2 + 1) ELSE i2
        nInt == i2 - i1
        nFrac == IF dot THEN i3 - (i2 + 1) ELSE 0
        mag  == DigitsValue(s, i2 + 1, i3, DigitsValue(s, i1, i2, 0))
    IN  IF nInt + nFrac = 0 THEN NaN
        ELSE Normalize(IF neg THEN 0 - mag ELSE mag, Pow10(nFrac))

isNaN(x) == x.den = 0

\* String(undefined): what parseFloat reads when handed a missing map entry
undefined == <<"u","n","d","e","f","i","n","e","d">>

\* x <= 0 for a number x
LeqZero(x) == ~isNaN(x) /\ x.num <= 0

(***************************************************************************)
(* Inputs: what the server may return and what the user may type            *)
(***************************************************************************)
RideIds == {1, 2}

StatusTexts ==
    { REQUESTED,
      <<"r","e","q","u","e","s","t","e","d">>,
      <<"A","c","c","e","p","t","e","d">>,
      COMPLETED,
      <<"C","A","N","C","E","L","L","E","D">> }

Ride == [id : RideIds, status : StatusTexts]

\* GET /ride answers: the rides in the order of their ids, each id at most once
RideLists ==
    { l \in UNION { [1..n -> Ride] : n \in 0..Cardinality(RideIds) } :
        \A i, j \in DOMAIN l : i < j => l[i].id < l[j].id }

PriceTexts ==
    { <<>>, <<"5">>, <<"0">>, <<"-",".","5">>, <<"5","x">>, <<"x">> }

PinTexts == { "", "1234" }

(***************************************************************************)
(* DriverDashboard                                                         *)
(***************************************************************************)
\* offerPrices[rideId], undefined for a key never set
PriceOf(prices, rideId) ==
    IF rideId \in DOMAIN prices THEN prices[rideId] ELSE undefined

\* { [rideId]: text }, without the spread of the other buffers
WithPrice_DropsOthers(prices, rideId, text) == [r \in {rideId} |-> text]

\* { ...offerPrices, [rideId]: text }
WithPrice(prices, rideId, text) ==
    [r \in DOMAIN prices \cup {rideId} |-> IF r = rideId THEN text ELSE prices[r]]

Toast(title, status) == [title |-> title, status |-> status]
NoToast == Toast("", "")

OfferReq(price, rideId) ==
    [url |-> "POST /offer", body |-> [price |-> price, ride_id |-> rideId]]

ValidationReq(rideId, p) ==
    [url |-> "POST /ride/validation", body |-> [ride_id |-> rideId, pin |-> p]]

\* a request equal to one that awaits its response is not sent again
Send_OncePerRequest(reqs, req) == IF BagIn(req, reqs) THEN reqs ELSE reqs (+) SetToBag({req})

\* mutate() sends the request, whatever is in flight already
Send(reqs, req) == reqs (+) SetToBag({req})
Receive(reqs, req) == reqs (-) SetToBag({req})
InFlight(reqs) == BagToSet(reqs)
CanSend(reqs) == BagCardinality(reqs) < MaxInFlight

\* the status is compared as it came, without toUpperCase()
RideAction_CaseSensitive(ride) ==
    IF ride.status = REQUESTED THEN "offer"
    ELSE IF ride.status = ACCEPTED THEN "validatePin"
    ELSE IF ride.status = COMPLETED THEN "completed"
    ELSE "none"

\* what the card of a ride offers, by ride.status.toUpperCase()
RideAction(ride) ==
    IF toUpperCase(ride.status) = REQUESTED THEN "offer"
    ELSE IF toUpperCase(ride.status) = ACCEPTED THEN "validatePin"
    ELSE IF toUpperCase(ride.status) = COMPLETED THEN "completed"
    ELSE "none"

\* the cards are rendered when the query is neither loading nor in error
RidesShown == IF ridesStatus = "success" THEN rides ELSE <<>>

\* the query function of ['driverRides'] resolves (poll or refetch) with the
\* list the server has at that moment
RidesFetchSuccess(list) ==
    /\ serverRides' = list
    /\ rides' = list
    /\ ridesStatus' = "success"
    /\ ridesInvalidated' = FALSE
    /\ UNCHANGED <<modalVars, offerPrices, selectedRideId, pin, isOpen, driverReqs, toast>>

\* the query function rejects: the data of the last success is kept
RidesFetchError ==
    /\ ridesStatus' = "error"
    /\ UNCHANGED <<modalVars, serverRides, rides, ridesInvalidated, offerPrices, selectedRideId, pin, isOpen,
                   driverReqs, toast>>

\* onChange of the price Input of a ride
PriceInputChange(k, text) ==
    /\ k \in DOMAIN RidesShown
    /\ RideAction(RidesShown[k]) = "offer"
    /\ offerPrices' = WithPrice(offerPrices, RidesShown[k].id, text)
    /\ UNCHANGED <<modalVars, serverRides, rides, ridesStatus, ridesInvalidated, selectedRideId, pin, isOpen,
                   driverReqs, toast>>

handleSendOffer(rideId) ==
    LET price == parseFloat(PriceOf(offerPrices, rideId))
    IN  IF isNaN(price) \/ LeqZero(price)
        THEN /\ toast' = Toast("Invalid price", "error")
             /\ UNCHANGED <<modalVars, serverRides, rides, ridesStatus, ridesInvalidated, offerPrices,
                            selectedRideId, pin, isOpen, driverReqs>>
        ELSE /\ CanSend(driverReqs)
             /\ driverReqs' = Send(driverReqs, OfferReq(price, rideId))
             /\ offerPrices' = WithPrice(offerPrices, rideId, <<>>)
             /\ UNCHANGED <<modalVars, serverRides, rides, ridesStatus, ridesInvalidated, selectedRideId, pin,
                            isOpen, toast>>

\* onClick of Send Offer
SendOfferClick(k) ==
    /\ k \in DOMAIN RidesShown
    /\ RideAction(RidesShown[k]) = "offer"
    /\ handleSendOffer(RidesShown[k].id)

\* the success handler forgets to invalidate ['driverRides']
createOfferOnSuccess_NoRefetch(req) ==
    /\ driverReqs' = Receive(driverReqs, req)
    /\ toast' = Toast("Offer sent successfully", "success")
    /\ UNCHANGED <<modalVars, serverRides, rides, ridesStatus, ridesInvalidated, offerPrices,
                   selectedRideId, pin, isOpen>>

createOfferOnSuccess(req) ==
    /\ driverReqs' = Receive(driverReqs, req)
    /\ ridesInvalidated' = TRUE
    /\ toast' = Toast("Offer sent successfully", "success")
    /\ UNCHANGED <<modalVars, serverRides, rides, ridesStatus, offerPrices, selectedRideId, pin, isOpen>>

createOfferOnError(req) ==
    /\ driverReqs' = Receive(driverReqs, req)
    /\ toast' = Toast("Failed to send offer", "error")
    /\ UNCHANGED <<modalVars, serverRides, rides, ridesStatus, ridesInvalidated, offerPrices, selectedRideId,
                   pin, isOpen>>

\* POST /offer answers
CreateOfferSettles ==
    \E req \in InFlight(driverReqs) :
        /\ req.url = "POST /offer"
        /\ \/ createOfferOnSuccess(req)
           \/ createOfferOnError(req)

\* the modal opens with the PIN text it was left with
handlePinValidation_KeepsPin(rideId) ==
    /\ selectedRideId' = rideId
    /\ isOpen' = TRUE
    /\ UNCHANGED <<modalVars, serverRides, rides, ridesStatus, ridesInvalidated, offerPrices, driverReqs, toast, pin>>

\* onClick of Validate PIN: setSelectedRideId(rideId); setPin(""); onOpen()
handlePinValidation(rideId) ==
    /\ selectedRideId' = rideId
    /\ pin' = ""
    /\ isOpen' = TRUE
    /\ UNCHANGED <<modalVars, serverRides, rides, ridesStatus, ridesInvalidated, offerPrices, driverReqs, toast>>

\* a Validate PIN button on the card of every ride
ValidatePinClick_OnEveryCard(k) ==
    /\ k \in DOMAIN RidesShown
    /\ handlePinValidation(RidesShown[k].id)

\* onClick of Validate PIN
ValidatePinClick(k) ==
    /\ k \in DOMAIN RidesShown
    /\ RideAction(RidesShown[k]) = "validatePin"
    /\ handlePinValidation(RidesShown[k].id)

\* onChange of the PIN Input of the modal
PinInputChange(text) ==
    /\ isOpen
    /\ pin' = text
    /\ UNCHANGED <<modalVars, serverRides, rides, ridesStatus, ridesInvalidated, offerPrices, selectedRideId,
                   isOpen, driverReqs, toast>>

\* if (selectedRideId): null and 0 are falsy
Truthy(rideId) == rideId # 0

handlePinSubmit ==
    IF Truthy(selectedRideId)
    THEN /\ CanSend(driverReqs)
         /\ driverReqs' = Send(driverReqs, ValidationReq(selectedRideId, pin))
         /\ UNCHANGED <<modalVars, serverRides, rides, ridesStatus, ridesInvalidated, offerPrices,
                        selectedRideId, pin, isOpen, toast>>
    ELSE UNCHANGED vars

\* onClick of Submit
PinSubmitClick == isOpen /\ handlePinSubmit

\* useDisclosure onClose: Cancel, the close button, the overlay, Escape
onClose ==
    /\ isOpen' = FALSE
    /\ UNCHANGED <<modalVars, serverRides, rides, ridesStatus, ridesInvalidated, offerPrices, selectedRideId,
                   pin, driverReqs, toast>>

PinModalClose == isOpen /\ onClose

\* the modal is closed whatever the answer says
validatePinOnSuccess_ClosesAlways(req, validation) ==
    /\ driverReqs' = Receive(driverReqs, req)
    /\ toast' = IF validation THEN Toast("PIN validated successfully", "success")
                 ELSE Toast("Invalid PIN", "error")
    /\ isOpen' = FALSE
    /\ ridesInvalidated' = TRUE
    /\ UNCHANGED <<modalVars, serverRides, rides, ridesStatus, offerPrices, selectedRideId, pin>>

validatePinOnSuccess(req, validation) ==
    /\ driverReqs' = Receive(driverReqs, req)
    /\ IF validation
       THEN /\ toast' = Toast("PIN validated successfully", "success")
            /\ isOpen' = FALSE
            /\ ridesInvalidated' = TRUE
       ELSE /\ toast' = Toast("Invalid PIN", "error")
            /\ UNCHANGED <<isOpen, ridesInvalidated>>
    /\ UNCHANGED <<modalVars, serverRides, rides, ridesStatus, offerPrices, selectedRideId, pin>>

validatePinOnError(req) ==
    /\ driverReqs' = Receive(driverReqs, req)
    /\ toast' = Toast("Error validating PIN", "error")
    /\ UNCHANGED <<modalVars, serverRides, rides, ridesStatus, ridesInvalidated, offerPrices, selectedRideId,
                   pin, isOpen>>

\* a success closes the modal only when it answers the ride the modal is
\* open for
ValidatePinSettles_ForSelectedRide ==
    \E req \in InFlight(driverReqs) :
        /\ req.url = "POST /ride/validation"
        /\ \/ \E validation \in BOOLEAN :
                IF validation /\ req.body.ride_id # selectedRideId
                THEN /\ driverReqs' = Receive(driverReqs, req)
                     /\ toast' = Toast("PIN validated successfully", "success")
                     /\ ridesInvalidated' = TRUE
                     /\ UNCHANGED <<modalVars, serverRides, rides, ridesStatus, offerPrices,
                                    selectedRideId, pin, isOpen>>
                ELSE validatePinOnSuccess(req, validation)
           \/ validatePinOnError(req)

\* POST /ride/validation answers
ValidatePinSettles ==
    \E req \in InFlight(driverReqs) :
        /\ req.url = "POST /ride/validation"
        /\ \/ \E validation \in BOOLEAN : validatePinOnSuccess(req, validation)
           \/ validatePinOnError(req)

(***************************************************************************)
(* OffersModal                                                             *)
(***************************************************************************)
\* the rideId prop
rideId == 7

\* most offers in one answer of GET /offer?ride_id=
MaxOffers == 2

Offer(id, price, rating) ==
    [id |-> id, ride_id |-> rideId, driver |-> [rating |-> rating], price |-> price]

\* the offers the drivers have made: 1 and 3 tie on price, 2 and 3 on rating
OfferSet == { Offer(1, 5, 3), Offer(2, 9, 5), Offer(3, 5, 5) }

OfferIds == { o.id : o \in OfferSet }

\* GET /offer?ride_id= answers: offers in any order, each at most once
OfferLists ==
    { l \in UNION { [1..n -> OfferSet] : n \in 0..MaxOffers } :
        \A i, j \in DOMAIN l : i # j => l[i] # l[j] }

SortKeys == { "price", "rating" }

\* the rating comparison has its operands the wrong way round
compareFn_RatingAscending(a, b, key) ==
    IF key = "price" THEN a.price - b.price ELSE a.driver.rating - b.driver.rating

\* the comparator handed to Array.prototype.sort
compareFn(a, b, key) ==
    IF key = "price" THEN a.price - b.price ELSE b.driver.rating - a.driver.rating

\* x goes before the first element that must follow it: equal elements keep
\* the order in which they came (Array.prototype.sort is stable)
RECURSIVE InsertInOrder(_, _, _)
InsertInOrder(sorted, x, key) ==
    IF sorted = <<>> THEN <<x>>
    ELSE IF compareFn(Head(sorted), x, key) > 0 THEN <<x>> \o sorted
    ELSE <<Head(sorted)>> \o InsertInOrder(Tail(sorted), x, key)

RECURSIVE SortInto(_, _, _)
SortInto(sorted, arr, key) ==
    IF arr = <<>> THEN sorted
    ELSE SortInto(InsertInOrder(sorted, Head(arr), key), Tail(arr), key)

\* offers?.sort(...): sorts the array of the query cache in place at each render
sortedOffers(arr, key) == SortInto(<<>>, arr, key)

\* the filter keeps the declined offer instead of the others
FilterOut_KeepsDeclined(arr, offerId) == SelectSeq(arr, LAMBDA offer : offer.id = offerId)

\* oldData.filter(offer => offer.id !== offerId)
FilterOut(arr, offerId) == SelectSeq(arr, LAMBDA offer : offer.id # offerId)

AcceptReq(offerId) ==
    [url |-> "PUT /offer/select-offer", body |-> [ride_id |-> rideId, offer_id |-> offerId]]

CancelReq == [url |-> "DELETE /ride/:id", body |-> [ride_id |-> rideId]]

\* the list is rendered when the query is neither loading nor in error
OffersShown == IF offersStatus = "success" THEN offers ELSE <<>>

\* the onClose prop: the parent closes the modal
props_onClose == modalOpen' = FALSE

\* drivers make and withdraw offers
ServerOffersChange(list) ==
    /\ serverOffers' = list
    /\ UNCHANGED <<driverVars, offers, offersStatus, offersInvalidated,
                   userRidesInvalidated, sortBy, modalOpen, modalReqs, modalToast>>

\* a cache that took the response of the first fetch only
OffersFetchSuccess_FirstFetchWins ==
    /\ offers' = IF offersStatus = "loading" THEN sortedOffers(serverOffers, sortBy) ELSE offers
    /\ offersStatus' = "success"
    /\ offersInvalidated' = FALSE
    /\ UNCHANGED <<driverVars, userRidesInvalidated, sortBy, modalOpen, modalReqs,
                   modalToast, serverOffers>>

\* the query function of ['offers', rideId] resolves (poll or refetch)
OffersFetchSuccess ==
    /\ offers' = sortedOffers(serverOffers, sortBy)
    /\ offersStatus' = "success"
    /\ offersInvalidated' = FALSE
    /\ UNCHANGED <<driverVars, userRidesInvalidated, sortBy, modalOpen, modalReqs,
                   modalToast, serverOffers>>

\* the query function rejects: the data of the last success is kept
OffersFetchError ==
    /\ offersStatus' = "error"
    /\ UNCHANGED <<driverVars, offers, offersInvalidated, userRidesInvalidated, sortBy,
                   modalOpen, modalReqs, modalToast, serverOffers>>

\* the page that shows the rider's rides refetches ['userRides']
UserRidesFetchSuccess ==
    /\ userRidesInvalidated
    /\ userRidesInvalidated' = FALSE
    /\ UNCHANGED <<driverVars, offers, offersStatus, offersInvalidated, sortBy,
                   modalOpen, modalReqs, modalToast, serverOffers>>

\* onChange of the Select
setSortBy(key) ==
    /\ modalOpen
    /\ sortBy' = key
    /\ offers' = sortedOffers(offers, key)
    /\ UNCHANGED <<driverVars, offersStatus, offersInvalidated, userRidesInvalidated,
                   modalOpen, modalReqs, modalToast, serverOffers>>

handleAccept(offerId) ==
    /\ CanSend(modalReqs)
    /\ modalReqs' = Send(modalReqs, AcceptReq(offerId))
    /\ UNCHANGED <<driverVars, offers, offersStatus, offersInvalidated,
                   userRidesInvalidated, sortBy, modalOpen, modalToast, serverOffers>>

\* onClick of Accept
AcceptClick(k) ==
    /\ modalOpen
    /\ k \in DOMAIN OffersShown
    /\ handleAccept(OffersShown[k].id)

\* the success handler forgets to invalidate ['offers', rideId]
acceptOfferOnSuccess_KeepsOffers(req, data) ==
    /\ modalReqs' = Receive(modalReqs, req)
    /\ userRidesInvalidated' = TRUE
    /\ modalToast' = [title |-> "Offer accepted", status |-> "success", pin |-> data.pin]
    /\ props_onClose
    /\ UNCHANGED <<driverVars, offers, offersStatus, offersInvalidated, sortBy,
                   serverOffers>>

acceptOfferOnSuccess(req, data) ==
    /\ modalReqs' = Receive(modalReqs, req)
    /\ offersInvalidated' = TRUE
    /\ userRidesInvalidated' = TRUE
    /\ modalToast' = [title |-> "Offer accepted", status |-> "success", pin |-> data.pin]
    /\ props_onClose
    /\ UNCHANGED <<driverVars, offers, offersStatus, sortBy, serverOffers>>

acceptOfferOnError(req) ==
    /\ modalReqs' = Receive(modalReqs, req)
    /\ modalToast' = Toast("Error accepting offer", "error")
    /\ UNCHANGED <<driverVars, offers, offersStatus, offersInvalidated,
                   userRidesInvalidated, sortBy, modalOpen, serverOffers>>

\* PUT /offer/select-offer answers
AcceptOfferSettles ==
    \E req \in InFlight(modalReqs) :
        /\ req.url = "PUT /offer/select-offer"
        /\ \/ \E p \in PinTexts : acceptOfferOnSuccess(req, [pin |-> p])
           \/ acceptOfferOnError(req)

handleDecline(offerId) ==
    /\ offers' = sortedOffers(FilterOut(offers, offerId), sortBy)
    /\ offersStatus' = "success"
    /\ UNCHANGED <<driverVars, offersInvalidated, userRidesInvalidated, sortBy,
                   modalOpen, modalReqs, modalToast, serverOffers>>

\* onClick of Decline
DeclineClick(k) ==
    /\ modalOpen
    /\ k \in DOMAIN OffersShown
    /\ handleDecline(OffersShown[k].id)

handleCancelRide ==
    /\ CanSend(modalReqs)
    /\ modalReqs' = Send(modalReqs, CancelReq)
    /\ UNCHANGED <<driverVars, offers, offersStatus, offersInvalidated,
                   userRidesInvalidated, sortBy, modalOpen, modalToast, serverOffers>>

\* onClick of Cancel Ride
CancelRideClick == modalOpen /\ handleCancelRide

\* the success handler forgets onClose()
cancelRideOnSuccess_StaysOpen(req) ==
    /\ modalReqs' = Receive(modalReqs, req)
    /\ userRidesInvalidated' = TRUE
    /\ modalToast' = Toast("Ride cancelled successfully", "success")
    /\ UNCHANGED <<driverVars, offers, offersStatus, offersInvalidated, sortBy,
                   modalOpen, serverOffers>>

cancelRideOnSuccess(req) ==
    /\ modalReqs' = Receive(modalReqs, req)
    /\ userRidesInvalidated' = TRUE
    /\ modalToast' = Toast("Ride cancelled successfully", "success")
    /\ props_onClose
    /\ UNCHANGED <<driverVars, offers, offersStatus, offersInvalidated, sortBy,
                   serverOffers>>

cancelRideOnError(req) ==
    /\ modalReqs' = Receive(modalReqs, req)
    /\ modalToast' = Toast("Error cancelling ride", "error")
    /\ UNCHANGED <<driverVars, offers, offersStatus, offersInvalidated,
                   userRidesInvalidated, sortBy, modalOpen, serverOffers>>

\* DELETE /ride/:id answers
CancelRideSettles ==
    \E req \in InFlight(modalReqs) :
        /\ req.url = "DELETE /ride/:id"
        /\ \/ cancelRideOnSuccess(req)
           \/ cancelRideOnError(req)

\* onClick of Close, the overlay, Escape
ModalCloseClick ==
    /\ modalOpen
    /\ props_onClose
    /\ UNCHANGED <<driverVars, offers, offersStatus, offersInvalidated,
                   userRidesInvalidated, sortBy, modalReqs, modalToast, serverOffers>>

DriverInit ==
    /\ rides = <<>>
    /\ ridesStatus = "loading"
    /\ ridesInvalidated = FALSE
    /\ offerPrices = <<>>
    /\ selectedRideId = 0
    /\ pin = ""
    /\ isOpen = FALSE
    /\ driverReqs = EmptyBag
    /\ toast = NoToast
    /\ serverRides = <<>>

ModalInit ==
    /\ offers = <<>>
    /\ offersStatus = "loading"
    /\ offersInvalidated = FALSE
    /\ userRidesInvalidated = FALSE
    /\ sortBy = "price"
    /\ modalOpen = TRUE
    /\ modalReqs = EmptyBag
    /\ modalToast = NoToast

\* no driver has made an offer yet
Init == DriverInit /\ ModalInit /\ serverOffers = <<>>

\* the modal opens on a ride that has any of the offer lists
InitOffersMade == DriverInit /\ ModalInit /\ serverOffers \in OfferLists

\* the ride list is polled every 5 s and refetched when invalidated
PollNext(lists) ==
    \/ \E list \in lists : RidesFetchSuccess(list)
    \/ RidesFetchError

OfferFlowNext(texts) ==
    \/ \E k \in 1..Cardinality(RideIds), text \in texts : PriceInputChange(k, text)
    \/ \E k \in 1..Cardinality(RideIds) : SendOfferClick(k)
    \/ CreateOfferSettles

PinFlowNext(pins) ==
    \/ \E k \in 1..Cardinality(RideIds) : ValidatePinClick(k)
    \/ \E text \in pins : PinInputChange(text)
    \/ PinSubmitClick
    \/ PinModalClose
    \/ ValidatePinSettles

ServerNext == \E list \in OfferLists : ServerOffersChange(list)

ModalViewNext ==
    \/ OffersFetchSuccess
    \/ OffersFetchError
    \/ UserRidesFetchSuccess
    \/ \E key \in SortKeys : setSortBy(key)
    \/ \E k \in 1..MaxOffers : AcceptClick(k)
    \/ AcceptOfferSettles
    \/ \E k \in 1..MaxOffers : DeclineClick(k)
    \/ CancelRideClick
    \/ CancelRideSettles
    \/ ModalCloseClick

\* the dashboard with the PIN modal left alone
SpecOffer == Init /\ [][PollNext(RideLists) \/ OfferFlowNext(PriceTexts)]_vars

\* the dashboard with the price inputs left alone
SpecPin == Init /\ [][PollNext(RideLists) \/ PinFlowNext(PinTexts)]_vars

\* the rider's modal, with drivers making and withdrawing offers
SpecModal == Init /\ [][ServerNext \/ ModalViewNext]_vars

\* the rider's modal while the offers of the ride stay as they are
SpecOffersFixed == InitOffersMade /\ [][ModalViewNext]_vars

\* one ride, one price, one PIN: the two flows of the dashboard together; the
\* ride has the id 2 and is the first of its list
OneRideLists == { l \in RideLists : \A k \in DOMAIN l : l[k].id = 2 }

SpecDriver ==
    Init /\ [][PollNext(OneRideLists) \/ OfferFlowNext({<<"5">>})
                \/ PinFlowNext({"1234"})]_vars

\* the driver's page or the rider's modal.  The two components share no state
\* (every action of one leaves the variables of the other alone and reads none
\* of them), so a behaviour of the two is a behaviour of one beside a
\* behaviour of the other: here the one that acts first is watched, with one
\* ride on the dashboard and the offers of the modal's ride left as they are.
OneViewNext ==
    \/ ModalInit /\ \E list \in OneRideLists : RidesFetchSuccess(list)
    \/ ModalInit /\ RidesFetchError
    \/ ModalInit /\ \E k \in 1..Cardinality(RideIds) : ValidatePinClick(k)
    \/ ModalInit /\ \E text \in PinTexts : PinInputChange(text)
    \/ ModalInit /\ PinSubmitClick
    \/ ModalInit /\ PinModalClose
    \/ ModalInit /\ ValidatePinSettles
    \/ DriverInit /\ OffersFetchSuccess
    \/ DriverInit /\ OffersFetchError
    \/ DriverInit /\ UserRidesFetchSuccess
    \/ DriverInit /\ \E key \in SortKeys : setSortBy(key)
    \/ DriverInit /\ \E k \in 1..MaxOffers : AcceptClick(k)
    \/ DriverInit /\ AcceptOfferSettles
    \/ DriverInit /\ \E k \in 1..MaxOffers : DeclineClick(k)
    \/ DriverInit /\ CancelRideClick
    \/ DriverInit /\ CancelRideSettles
    \/ DriverInit /\ ModalCloseClick

SpecOneView == InitOffersMade /\ [][OneViewNext]_vars

\* rides are requested, accepted and completed on the server
ServerRidesChange(list) ==
    /\ serverRides' = list
    /\ UNCHANGED <<modalVars, rides, ridesStatus, ridesInvalidated, offerPrices, selectedRideId,
                   pin, isOpen, driverReqs, toast>>

\* the two lists and what changes them: the server, the polls, Decline and
\* the sort key.  refetchInterval: 5000 runs each query function again and
\* again, and a poll that is due and would bring news is taken to succeed in
\* the end.
ListsNext ==
    \/ ServerNext
    \/ \E list \in OneRideLists : ServerRidesChange(list)
    \/ RidesFetchSuccess(serverRides)
    \/ RidesFetchError
    \/ OffersFetchSuccess
    \/ OffersFetchError
    \/ \E key \in SortKeys : setSortBy(key)
    \/ \E k \in 1..MaxOffers : DeclineClick(k)

SpecLists ==
    /\ Init
    /\ [][ListsNext]_vars
    /\ WF_vars(RidesFetchSuccess(serverRides))
    /\ WF_vars(OffersFetchSuccess)

(***************************************************************************)
(* Properties                                                              *)
(***************************************************************************)
Range(s) == { s[k] : k \in DOMAIN s }

\* a text that is, as a whole, a signed decimal literal
IsNumeric(text) ==
    LET t == IF text # <<>> /\ Head(text) \in {"-", "+"} THEN Tail(text) ELSE text
    IN  /\ \A k \in DOMAIN t : IsDigit(t[k]) \/ t[k] = "."
        /\ Cardinality({ k \in DOMAIN t : t[k] = "." }) <= 1
        /\ \E k \in DOMAIN t : IsDigit(t[k])

\* C1: clicking Send Offer on a ride whose price buffer is not numeric (empty and
\* never typed included) or denotes a number <= 0 issues no POST /offer request,
\* shows the error notification and leaves the buffer as it was.
C1_BadPriceSendsNothing ==
    [][\A k \in DOMAIN RidesShown :
        LET text == PriceOf(offerPrices, RidesShown[k].id)
        IN  (SendOfferClick(k) /\ (~IsNumeric(text) \/ LeqZero(parseFloat(text))))
            => /\ driverReqs' = driverReqs
               /\ offerPrices' = offerPrices
               /\ toast' = Toast("Invalid price", "error")]_vars

\* C2: a PIN validation answer with validation false leaves the PIN modal open,
\* shows the error notification and triggers no refetch of the ride list; an
\* answer with validation true closes the modal and invalidates the ride list.
C2_ValidationAnswer ==
    [][\A req \in InFlight(driverReqs) :
        /\ validatePinOnSuccess(req, FALSE)
           => /\ isOpen' = isOpen
              /\ toast' = Toast("Invalid PIN", "error")
              /\ ridesInvalidated' = ridesInvalidated
        /\ validatePinOnSuccess(req, TRUE)
           => /\ ~isOpen'
              /\ ridesInvalidated']_vars

\* an answer with validation false has arrived while the modal was open
C2_Witness ==
    /\ toast = Toast("Invalid PIN", "error")
    /\ isOpen
    /\ ~ridesInvalidated
    /\ driverReqs = EmptyBag

\* C3, as stated: once the DELETE /ride/:id call is answered, with success or with
\* failure, the modal is closed.
C3_ClosedWhateverTheOutcome ==
    [][\A req \in InFlight(modalReqs) :
        (cancelRideOnSuccess(req) \/ cancelRideOnError(req)) => ~modalOpen']_vars

\* C3, amended: once the DELETE /ride/:id call succeeds the modal is closed,
\* whatever the offer list holds; when the call fails the modal is left as it was.
C3_ClosedOnSuccess ==
    [][\A req \in InFlight(modalReqs) :
        /\ cancelRideOnSuccess(req) => ~modalOpen'
        /\ cancelRideOnError(req) => modalOpen' = modalOpen]_vars

\* the ride was cancelled with offers on display
C3_Witness ==
    /\ modalToast = Toast("Ride cancelled successfully", "success")
    /\ ~modalOpen
    /\ OffersShown # <<>>

\* C4: when an offer request for ride r succeeds, r's price buffer is empty after
\* the success has been handled and the ride list query is invalidated.
C4_SuccessClearsBuffer ==
    [][\A req \in InFlight(driverReqs) :
        createOfferOnSuccess(req)
        => /\ PriceOf(offerPrices', req.body.ride_id) = <<>>
           /\ ridesInvalidated']_vars

\* C5: after a failed offer request the price buffer of its ride holds what it
\* held when Send Offer was clicked (the price that was sent), and the PIN modal,
\* the selected ride and the PIN text are as they were; after a failed PIN
\* validation the same state is untouched.
C5_FailureRestoresView ==
    [][\A req \in InFlight(driverReqs) :
        /\ createOfferOnError(req)
           => /\ parseFloat(PriceOf(offerPrices', req.body.ride_id)) = req.body.price
              /\ UNCHANGED <<isOpen, selectedRideId, pin>>
        /\ validatePinOnError(req)
           => UNCHANGED <<offerPrices, isOpen, selectedRideId, pin>>]_vars

\* C6: declining offer o removes from the displayed list exactly the offers with
\* id o, keeps the others in their order and sends nothing; a completed poll
\* displays every offer the server returns, a declined one included.
C6_DeclineIsLocal ==
    [][/\ \A k \in DOMAIN OffersShown :
            DeclineClick(k)
            => /\ offers' = SelectSeq(offers, LAMBDA x : x.id # OffersShown[k].id)
               /\ \A x \in Range(offers) :
                      x \in Range(offers') <=> x.id # OffersShown[k].id
               /\ modalReqs' = modalReqs
       /\ OffersFetchSuccess
            => /\ Range(offers') = Range(serverOffers)
               /\ Len(offers') = Len(serverOffers)]_vars

\* an offer has been declined: the server returns it and the list does not show it
C6_Witness ==
    /\ offersStatus = "success"
    /\ modalOpen
    /\ offers # <<>>
    /\ Range(offers) \subseteq Range(serverOffers)
    /\ Range(offers) # Range(serverOffers)
    /\ modalReqs = EmptyBag

\* C7: Accept sends {ride_id, offer_id} for the modal's ride and the clicked offer;
\* on success the returned PIN is shown, both queries are invalidated and the
\* modal is closed; on failure the modal is left as it was and no query is
\* invalidated.
C7_Accept ==
    [][/\ \A k \in DOMAIN OffersShown :
            AcceptClick(k)
            => modalReqs' = modalReqs (+) SetToBag({
                  [url |-> "PUT /offer/select-offer",
                   body |-> [ride_id |-> rideId, offer_id |-> OffersShown[k].id]]})
       /\ \A req \in InFlight(modalReqs) :
            /\ \A p \in PinTexts :
                 acceptOfferOnSuccess(req, [pin |-> p])
                 => /\ modalToast'.title = "Offer accepted"
                    /\ modalToast'.pin = p
                    /\ offersInvalidated'
                    /\ userRidesInvalidated'
                    /\ ~modalOpen'
            /\ acceptOfferOnError(req)
                 => /\ modalOpen' = modalOpen
                    /\ UNCHANGED <<offersInvalidated, userRidesInvalidated>>]_vars

\* an offer has been accepted and its PIN shown
C7_Witness ==
    /\ modalToast.title = "Offer accepted"
    /\ modalToast.pin = "1234"
    /\ ~modalOpen
    /\ offersInvalidated
    /\ userRidesInvalidated

\* out is arr in the order of key (price ascending, rating descending), with the
\* offers that tie on key in the order they have in arr
IsStableSort(out, arr, key) ==
    /\ Len(out) = Len(arr)
    /\ \A x \in Range(arr) \cup Range(out) :
          Cardinality({ k \in DOMAIN out : out[k] = x })
              = Cardinality({ k \in DOMAIN arr : arr[k] = x })
    /\ \A i, j \in DOMAIN out :
          i < j => IF key = "price" THEN out[i].price <= out[j].price
                   ELSE out[i].driver.rating >= out[j].driver.rating
    /\ \A i, j \in DOMAIN arr :
          (/\ i < j
           /\ IF key = "price" THEN arr[i].price = arr[j].price
              ELSE arr[i].driver.rating = arr[j].driver.rating)
          => \E m, n \in DOMAIN out : m < n /\ out[m] = arr[i] /\ out[n] = arr[j]

C9_EveryMutationInvalidates ==
    [][\A req \in InFlight(driverReqs) :
        (\/ createOfferOnSuccess(req)
         \/ createOfferOnError(req)
         \/ \E validation \in BOOLEAN : validatePinOnSuccess(req, validation)
         \/ validatePinOnError(req))
        => ridesInvalidated']_vars

\* C9, amended: every mutation of the dashboard that succeeds (an offer created, a
\* PIN answered with validation true) invalidates the ride list query; a failed
\* request and an answer with validation false leave the query as it was.
C9_SuccessInvalidates ==
    [][\A req \in InFlight(driverReqs) :
        /\ (createOfferOnSuccess(req) \/ validatePinOnSuccess(req, TRUE))
           => ridesInvalidated'
        /\ (\/ createOfferOnError(req)
            \/ validatePinOnSuccess(req, FALSE)
            \/ validatePinOnError(req))
           => ridesInvalidated' = ridesInvalidated]_vars

\* an offer has been created and the refetch it forces has not completed
C9_Witness ==
    /\ toast = Toast("Offer sent successfully", "success")
    /\ ridesInvalidated
    /\ driverReqs = EmptyBag

\* s and t are the same text but for the case of their letters
EqIgnoreCase(s, t) ==
    /\ Len(s) = Len(t)
    /\ \A k \in DOMAIN s :
          \/ s[k] = t[k]
          \/ \E n \in DOMAIN Lower : {s[k], t[k]} = {Lower[n], Upper[n]}

\* C10: a ride of the last polled list has the price input and Send Offer when
\* its status is REQUESTED in any case of letters, has Validate PIN when it is
\* ACCEPTED in any case, and has no action otherwise: a price buffer changes or
\* an offer is sent only for a ride displayed as REQUESTED, the PIN modal opens
\* only for a ride displayed as ACCEPTED. A poll displays the statuses as the
\* server sent them, whatever the list displayed before.
C10_ActionByStatus ==
    [][/\ \A k \in DOMAIN RidesShown :
            LET status == RidesShown[k].status
            IN  /\ EqIgnoreCase(status, REQUESTED) <=> RideAction(RidesShown[k]) = "offer"
                /\ EqIgnoreCase(status, ACCEPTED)
                       <=> RideAction(RidesShown[k]) = "validatePin"
       /\ \A id \in RideIds :
            /\ (\/ PriceOf(offerPrices', id) # PriceOf(offerPrices, id)
                \/ \E req \in InFlight(driverReqs') :
                      /\ req.url = "POST /offer"
                      /\ req.body.ride_id = id
                      /\ CopiesIn(req, driverReqs') > CopiesIn(req, driverReqs))
               => \E k \in DOMAIN RidesShown :
                      /\ RidesShown[k].id = id
                      /\ EqIgnoreCase(RidesShown[k].status, REQUESTED)
            /\ (selectedRideId' = id /\ isOpen' /\ ~isOpen)
               => \E k \in DOMAIN RidesShown :
                      /\ RidesShown[k].id = id
                      /\ EqIgnoreCase(RidesShown[k].status, ACCEPTED)
       /\ \A list \in OneRideLists : RidesFetchSuccess(list) => rides' = list]_vars

\* an offer is in flight for a ride displayed with the status "requested"
C10_Witness ==
    /\ \E k \in DOMAIN RidesShown :
          /\ RidesShown[k].status = <<"r","e","q","u","e","s","t","e","d">>
          /\ \E req \in InFlight(driverReqs) :
                req.url = "POST /offer" /\ req.body.ride_id = RidesShown[k].id

\* arr holds the items of list, each once, in some order
SameItems(arr, list) == Len(arr) = Len(list) /\ Range(arr) = Range(list)

\* a step in which a server list changes or the rider declines an offer
ListsDisturbed ==
    \/ serverRides' # serverRides
    \/ serverOffers' # serverOffers
    \/ \E k \in 1..MaxOffers : DeclineClick(k)

ListsConsistent == rides = serverRides /\ SameItems(offers, serverOffers)

\* C11: last poll wins.  Once the server's two lists have stopped changing
\* and the rider has stopped declining, the polls bring the cached ride list
\* to the server's list and the cached offers to exactly the server's
\* offers, and both stay so.
C11_LastPollWins == <>[][~ListsDisturbed]_vars => <>[]ListsConsistent

\* a declined offer is missing from the cache while the server still has it,
\* and the ride list on the screen is behind the server's
C11_Witness ==
    /\ offersStatus = "success"
    /\ Len(offers) < Len(serverOffers)
    /\ Range(offers) \subseteq Range(serverOffers)
    /\ ridesStatus = "success"
    /\ rides # serverRides

\* the step puts one more copy of req in flight
Issued(req, before, after) == CopiesIn(req, after) > CopiesIn(req, before)

\* C12: transient state is reset on close and on submit.  When the PIN modal
\* closes (Cancel, the close button, a successful validation) and when a PIN
\* is submitted, the PIN text is empty and no ride is selected afterwards; when
\* an offer is submitted the price buffer of its ride is empty afterwards; when
\* OffersModal closes the sort key is "price" afterwards.
C12_ResetOnCloseAndSubmit ==
    [][/\ (isOpen /\ ~isOpen') => (pin' = "" /\ selectedRideId' = 0)
       /\ \A req \in InFlight(driverReqs') :
            Issued(req, driverReqs, driverReqs')
            => IF req.url = "POST /ride/validation"
               THEN pin' = "" /\ selectedRideId' = 0
               ELSE PriceOf(offerPrices', req.body.ride_id) = <<>>
       /\ (modalOpen /\ ~modalOpen') => sortBy' = "price"]_vars

\* C13: identical mutations are not suppressed.  Submit with the PIN and ride
\* of a validation that awaits its response, Accept on an offer whose
\* acceptance awaits its response, and Cancel Ride while a cancellation awaits
\* its response can each be clicked (as long as fewer than MaxInFlight requests
\* are in flight) and put one more copy of the request in flight; every copy
\* in flight can be answered, and each answer that is handled, with success or
\* with failure, takes one copy away and leaves the others in flight.
C13_NoSuppression ==
    [][/\ \A req \in InFlight(driverReqs) :
            /\ (isOpen /\ req = ValidationReq(selectedRideId, pin) /\ CanSend(driverReqs))
               => ENABLED (/\ PinSubmitClick
                           /\ CopiesIn(req, driverReqs') = CopiesIn(req, driverReqs) + 1)
            /\ ENABLED validatePinOnSuccess(req, TRUE)
            /\ ENABLED validatePinOnError(req)
            /\ ((\E validation \in BOOLEAN : validatePinOnSuccess(req, validation))
                   \/ validatePinOnError(req))
               => driverReqs' (+) SetToBag({req}) = driverReqs
       /\ \A req \in InFlight(modalReqs) :
            /\ (modalOpen /\ CanSend(modalReqs) /\ req.url = "PUT /offer/select-offer")
               => \A k \in DOMAIN OffersShown :
                     OffersShown[k].id = req.body.offer_id
                     => ENABLED (/\ AcceptClick(k)
                                 /\ CopiesIn(req, modalReqs') = CopiesIn(req, modalReqs) + 1)
            /\ (modalOpen /\ CanSend(modalReqs) /\ req = CancelReq)
               => ENABLED (/\ CancelRideClick
                           /\ CopiesIn(req, modalReqs') = CopiesIn(req, modalReqs) + 1)
            /\ req.url = "PUT /offer/select-offer"
               => /\ ENABLED acceptOfferOnSuccess(req, [pin |-> "1234"])
                  /\ ENABLED acceptOfferOnError(req)
            /\ req = CancelReq
               => ENABLED cancelRideOnSuccess(req) /\ ENABLED cancelRideOnError(req)
            /\ (AcceptOfferSettles \/ CancelRideSettles)
               => \E done \in InFlight(modalReqs) :
                     modalReqs' (+) SetToBag({done}) = modalReqs]_vars

\* the same acceptance is in flight twice
C13_Witness ==
    \E req \in InFlight(modalReqs) :
        req.url = "PUT /offer/select-offer" /\ CopiesIn(req, modalReqs) = 2

\* C14: an answer with validation true closes the PIN modal whatever ride the
\* modal is open for.  Each step that takes a validation request out of flight
\* and shows "PIN validated successfully" leaves the modal closed, also when
\* the request was for ride A and the modal has been reopened for ride B since.
C14_LateSuccessCloses ==
    [][\A req \in InFlight(driverReqs) :
        (/\ req.url = "POST /ride/validation"
         /\ driverReqs' = Receive(driverReqs, req)
         /\ toast' = Toast("PIN validated successfully", "success"))
        => ~isOpen']_vars

\* the modal is open for ride 2, only the PIN of ride 1 awaits its answer, and
\* the success of that answer closes the modal
C14_Witness ==
    /\ isOpen
    /\ selectedRideId = 2
    /\ driverReqs # EmptyBag
    /\ \A req \in InFlight(driverReqs) :
          /\ req.body.ride_id = 1
          /\ ENABLED (validatePinOnSuccess(req, TRUE) /\ ~isOpen')

\* the ride id is on display with the status text, in any case of letters
DisplayedAs(id, text) ==
    \E k \in DOMAIN RidesShown :
        RidesShown[k].id = id /\ EqIgnoreCase(RidesShown[k].status, text)

\* C15, as stated: a request is only issued for a ride in the matching
\* displayed status.  POST /offer is issued only for a ride displayed as
\* REQUESTED when Send Offer is clicked, POST /ride/validation only for a ride
\* displayed as ACCEPTED when Submit is clicked, whatever the polls did to the
\* ride list while the PIN modal was open.
C15_IssuedInMatchingStatus ==
    [][\A req \in InFlight(driverReqs') :
        Issued(req, driverReqs, driverReqs')
        => IF req.url = "POST /offer"
           THEN DisplayedAs(req.body.ride_id, REQUESTED)
           ELSE DisplayedAs(req.body.ride_id, ACCEPTED)]_vars

\* C15, amended: POST /offer is issued only for a ride displayed as REQUESTED
\* when Send Offer is clicked.  POST /ride/validation is issued only with the
\* PIN modal open and for the selected ride, and a ride is selected (the modal
\* is opened) only while it is displayed as ACCEPTED: the request is for the
\* ride that was displayed as ACCEPTED when Validate PIN was clicked, whatever
\* the ride list displays when Submit is clicked.
C15_IssuedForRideOfTheClick ==
    [][/\ \A req \in InFlight(driverReqs') :
            Issued(req, driverReqs, driverReqs')
            => IF req.url = "POST /offer"
               THEN DisplayedAs(req.body.ride_id, REQUESTED)
               ELSE isOpen /\ req.body.ride_id = selectedRideId
       /\ (selectedRideId' # selectedRideId \/ (isOpen' /\ ~isOpen))
          => DisplayedAs(selectedRideId', ACCEPTED)]_vars

\* the PIN modal is open for a ride that a poll has displayed as completed
\* since, and Submit issues the validation request for it
C15_Witness ==
    /\ isOpen
    /\ DisplayedAs(selectedRideId, COMPLETED)
    /\ ENABLED (/\ PinSubmitClick
                /\ Issued(ValidationReq(selectedRideId, pin), driverReqs, driverReqs'))

\* C16: a validation request carries the ride of the last Validate PIN click
\* and a PIN typed since.  A step that opens the PIN modal or selects another
\* ride selects a ride displayed as ACCEPTED and leaves the PIN text empty; the
\* PIN text changes to a text that is not empty only in the open modal, with the
\* selected ride kept; a validation request is issued only from the open modal,
\* with a ride selected, and carries the selected ride and the PIN text as they
\* are.  So the PIN of a request was typed for the ride of the request.
C16_PinOfTheSelectedRide ==
    [][/\ ((isOpen' /\ ~isOpen) \/ selectedRideId' # selectedRideId)
          => /\ pin' = ""
             /\ isOpen'
             /\ DisplayedAs(selectedRideId', ACCEPTED)
       /\ pin' # pin
          => pin' = "" \/ (isOpen /\ isOpen' /\ selectedRideId' = selectedRideId)
       /\ isOpen => Truthy(selectedRideId)
       /\ \A req \in InFlight(driverReqs') :
            (req.url = "POST /ride/validation" /\ Issued(req, driverReqs, driverReqs'))
            => /\ isOpen
               /\ Truthy(selectedRideId)
               /\ req = ValidationReq(selectedRideId, pin)
               /\ UNCHANGED <<selectedRideId, pin>>]_vars

\* a PIN was typed and submitted for ride 1; the modal was then opened for
\* ride 2 and Submit clicked at once: the request for ride 2 has the empty PIN
C16_Witness ==
    /\ selectedRideId = 2
    /\ pin = ""
    /\ InFlight(driverReqs) = {ValidationReq(1, "1234"), ValidationReq(2, "")}

\* the price buffers of the rides other than id are as they were
OtherBuffersKept(id) ==
    \A r \in RideIds \ {id} : PriceOf(offerPrices', r) = PriceOf(offerPrices, r)

\* C17: the price buffers are independent.  A step changes the buffer of one
\* ride at most, so typing for ride r leaves the buffers of the other rides as
\* they were; a Send Offer that the local check refuses ("Invalid price")
\* changes no buffer; a Send Offer that issues a request issues it with a
\* ride_id r and the number parsed from r's buffer, empties r's buffer and
\* leaves the buffers of the other rides as they were.
C17_BuffersIndependent ==
    [][/\ \A r \in RideIds :
            PriceOf(offerPrices', r) # PriceOf(offerPrices, r) => OtherBuffersKept(r)
       /\ (toast' # toast /\ toast' = Toast("Invalid price", "error"))
          => offerPrices' = offerPrices
       /\ \A req \in InFlight(driverReqs') :
            Issued(req, driverReqs, driverReqs')
            => LET r == req.body.ride_id
               IN  /\ req = OfferReq(parseFloat(PriceOf(offerPrices, r)), r)
                   /\ PriceOf(offerPrices', r) = <<>>
                   /\ OtherBuffersKept(r)]_vars

\* the offer of ride 1 is in flight with the price of its buffer, 5, while the
\* buffer of ride 2 holds the 5x typed before
C17_Witness ==
    /\ InFlight(driverReqs) = {OfferReq(parseFloat(<<"5">>), 1)}
    /\ PriceOf(offerPrices, 1) = <<>>
    /\ PriceOf(offerPrices, 2) = <<"5","x">>
====
